---- MODULE Spec2Model ----
(***************************************************************************)
(* A model of the Marktplaats scraper API (src/main.py): the four request  *)
(* handlers /scrape, /batch-search, /smart-search and /style-collection,   *)
(* and the pure functions they call (parse_price, extract_id,              *)
(* translate_price_text_to_english, parse_natural_language_query).         *)
(*                                                                         *)
(* Texts are TLA+ strings, read character by character with SubSeq, so     *)
(* that the parsing functions are computed the way the code computes them. *)
(* An optional value (Python's None or a value) is the empty tuple or a    *)
(* one-element tuple.  A numeric price (a Python float) is a whole number  *)
(* of euro cents: the price texts of the model have at most two decimals.  *)
(*                                                                         *)
(* Not modelled, because no checked property reads them: the title,        *)
(* location, posted_at, image_url and description fields of an item, and   *)
(* translate_dutch_title_to_english.                                       *)
(***************************************************************************)
EXTENDS Integers, Sequences, FiniteSets, TLC

(***************************************************************************)
(* Optional values.                                                        *)
(***************************************************************************)
None == <<>>
Some(v) == <<v>>
IsNone(o) == o = <<>>
Val(o) == o[1]

(***************************************************************************)
(* Strings.                                                                *)
(***************************************************************************)
At(s, i) == SubSeq(s, i, i)

Digits == {"0", "1", "2", "3", "4", "5", "6", "7", "8", "9"}

IsDigit(c) == c \in Digits

DigitVal(c) ==
    CASE c = "0" -> 0 [] c = "1" -> 1 [] c = "2" -> 2 [] c = "3" -> 3
      [] c = "4" -> 4 [] c = "5" -> 5 [] c = "6" -> 6 [] c = "7" -> 7
      [] c = "8" -> 8 [] c = "9" -> 9

UpperAlpha == "ABCDEFGHIJKLMNOPQRSTUVWXYZ"
LowerAlpha == "abcdefghijklmnopqrstuvwxyz"

\* str.lower() on one character
LowerChar(c) ==
    IF \E i \in 1..26 : At(UpperAlpha, i) = c
    THEN At(LowerAlpha, CHOOSE i \in 1..26 : At(UpperAlpha, i) = c)
    ELSE c

\* str.lower()
RECURSIVE Lower(_)
Lower(s) ==
    IF s = "" THEN "" ELSE LowerChar(At(s, 1)) \o Lower(SubSeq(s, 2, Len(s)))

\* s[i:].startswith(sub), positions from 1
StartsAt(s, sub, i) ==
    /\ i >= 1
    /\ i + Len(sub) - 1 <= Len(s)
    /\ SubSeq(s, i, i + Len(sub) - 1) = sub

\* s.startswith(sub)
StartsWith(s, sub) == StartsAt(s, sub, 1)

\* s.endswith(sub)
EndsWith(s, sub) == Len(sub) <= Len(s) /\ StartsAt(s, sub, Len(s) - Len(sub) + 1)

\* sub in s
Contains(s, sub) == \E i \in 1..(Len(s) + 1) : StartsAt(s, sub, i)

\* the position after the maximal run of digits that starts at i (i itself
\* when s[i] is no digit)
RECURSIVE DigitRunEnd(_, _)
DigitRunEnd(s, i) ==
    IF i <= Len(s) /\ IsDigit(At(s, i)) THEN DigitRunEnd(s, i + 1) ELSE i

\* int(s) of a string of digits
RECURSIVE ToInt(_)
ToInt(s) ==
    IF s = "" THEN 0
    ELSE 10 * ToInt(SubSeq(s, 1, Len(s) - 1)) + DigitVal(At(s, Len(s)))

IsSpace(c) == c \in {" ", "\t", "\n"}

\* str.strip()
RECURSIVE Strip(_)
Strip(s) ==
    IF s = "" THEN ""
    ELSE IF IsSpace(At(s, 1)) THEN Strip(SubSeq(s, 2, Len(s)))
    ELSE IF IsSpace(At(s, Len(s))) THEN Strip(SubSeq(s, 1, Len(s) - 1))
    ELSE s

\* len(s.split()): the number of whitespace-separated words
WordCount(s) ==
    Cardinality({i \in 1..Len(s) :
        /\ ~IsSpace(At(s, i))
        /\ (i = 1 \/ IsSpace(At(s, i - 1)))})

\* s.replace(a, b) for one-character a
RECURSIVE ReplaceChar(_, _, _)
ReplaceChar(s, a, b) ==
    IF s = "" THEN ""
    ELSE (IF At(s, 1) = a THEN b ELSE At(s, 1))
         \o ReplaceChar(SubSeq(s, 2, Len(s)), a, b)

\* the number of occurrences of the character c in s
CountChar(s, c) == Cardinality({i \in 1..Len(s) : At(s, i) = c})

Min(a, b) == IF a <= b THEN a ELSE b
Max(a, b) == IF a >= b THEN a ELSE b

\* the Python slice seq[:n], n any integer
SliceTo(seq, n) ==
    IF n >= 0 THEN SubSeq(seq, 1, Min(n, Len(seq)))
    ELSE SubSeq(seq, 1, Max(Len(seq) + n, 0))

(***************************************************************************)
(* Pure functions of src/main.py.                                          *)
(***************************************************************************)
BASE == "https://www.marktplaats.nl"

\* the characters of the regular expression class [\d\.\,]
IsPriceChar(c) == IsDigit(c) \/ c = "." \/ c = ","

RECURSIVE PriceRunEnd(_, _)
PriceRunEnd(s, i) ==
    IF i <= Len(s) /\ IsPriceChar(At(s, i)) THEN PriceRunEnd(s, i + 1) ELSE i

\* re.findall(r"[\d\.\,]+", t): the first match, or "" when there is none
FirstPriceRun(t) ==
    IF \E i \in 1..Len(t) : IsPriceChar(At(t, i))
    THEN LET i == CHOOSE k \in 1..Len(t) :
                    /\ IsPriceChar(At(t, k))
                    /\ \A j \in 1..(k - 1) : ~IsPriceChar(At(t, j))
         IN SubSeq(t, i, PriceRunEnd(t, i) - 1)
    ELSE ""

\* float(s) for s made of digits and points, in cents; None when float()
\* raises ValueError (no digit, or more than one point).  Decimals beyond
\* the second are cut: the price texts of the model have at most two.
ParseFloat(s) ==
    IF CountChar(s, ".") > 1 \/ ~(\E i \in 1..Len(s) : IsDigit(At(s, i)))
    THEN None
    ELSE IF CountChar(s, ".") = 0 THEN Some(100 * ToInt(s))
    ELSE LET dot  == CHOOSE i \in 1..Len(s) : At(s, i) = "."
             int  == SubSeq(s, 1, dot - 1)
             frac == SubSeq(s, dot + 1, Min(Len(s), dot + 2))
         IN Some(100 * ToInt(int)
                 + (IF Len(frac) = 0 THEN 0
                    ELSE IF Len(frac) = 1 THEN 10 * ToInt(frac)
                    ELSE ToInt(frac)))

NoPriceWords == <<"bieden", "gratis", "n.o.t.k", "prijs op aanvraag">>

\* parse_price(text): text is an optional string
parse_price(text) ==
    IF IsNone(text) \/ Val(text) = "" THEN None
    ELSE LET t == Lower(Strip(Val(text)))
             m == FirstPriceRun(t)
         IN IF \E k \in 1..Len(NoPriceWords) : Contains(t, NoPriceWords[k])
            THEN None
            ELSE IF m = "" THEN None
            ELSE ParseFloat(ReplaceChar(ReplaceChar(m, ".", ""), ",", "."))

price_translations ==
    << <<"bieden", "Negotiable">>, <<"gratis", "Free">>,
       <<"vraagprijs", "Asking price">>, <<"vanaf", "From">>,
       <<"per", "per">>, <<"stuk", "piece">>, <<"set", "set">> >>

\* translate_price_text_to_english(dutch_price_text), an optional string
translate_price_text_to_english(dutch_price_text) ==
    IF IsNone(dutch_price_text) \/ Val(dutch_price_text) = ""
    THEN dutch_price_text
    ELSE LET lower_text == Lower(Val(dutch_price_text))
             hits == {k \in 1..Len(price_translations) :
                         Contains(lower_text, price_translations[k][1])}
         IN IF hits = {} THEN dutch_price_text
            ELSE Some(price_translations[
                     CHOOSE k \in hits : \A j \in hits : k <= j][2])

IsWordChar(c) ==
    \/ IsDigit(c)
    \/ c = "_"
    \/ \E i \in 1..26 : At(UpperAlpha, i) = c \/ At(LowerAlpha, i) = c

\* re.sub(r"\W+", "", url)
RECURSIVE StripNonWord(_)
StripNonWord(s) ==
    IF s = "" THEN ""
    ELSE (IF IsWordChar(At(s, 1)) THEN At(s, 1) ELSE "")
         \o StripNonWord(SubSeq(s, 2, Len(s)))

\* s[-n:]
LastChars(s, n) == SubSeq(s, Max(1, Len(s) - n + 1), Len(s))

\* whether -(m?\d+)(?:\.|$|/) matches at the dash at position i, and the
\* position after the digits when it does
DashIdStart(url, i) ==
    IF StartsAt(url, "m", i + 1) THEN i + 2 ELSE i + 1
DashIdEnd(url, i) == DigitRunEnd(url, DashIdStart(url, i))
DashIdAt(url, i) ==
    /\ At(url, i) = "-"
    /\ DashIdEnd(url, i) > DashIdStart(url, i)
    /\ \/ DashIdEnd(url, i) = Len(url) + 1
       \/ At(url, DashIdEnd(url, i)) \in {".", "/"}

\* whether /v/(\d+) matches at position i
SlashVAt(url, i) == StartsAt(url, "/v/", i) /\ DigitRunEnd(url, i + 3) > i + 3

IdTailLen == 24

\* extract_id(url)
extract_id(url) ==
    IF \E i \in 1..Len(url) : DashIdAt(url, i)
    THEN LET i == CHOOSE k \in 1..Len(url) :
                    DashIdAt(url, k) /\ \A j \in 1..(k - 1) : ~DashIdAt(url, j)
         IN SubSeq(url, i + 1, DashIdEnd(url, i) - 1)
    ELSE IF \E i \in 1..Len(url) : SlashVAt(url, i)
    THEN LET i == CHOOSE k \in 1..Len(url) :
                    SlashVAt(url, k) /\ \A j \in 1..(k - 1) : ~SlashVAt(url, j)
         IN SubSeq(url, i + 3, DigitRunEnd(url, i + 3) - 1)
    ELSE LastChars(StripNonWord(url), IdTailLen)

\* href if href.startswith("http") else urljoin(BASE, href), for an href
\* that is absolute or starts with "/"
full_url_of(href) == IF StartsWith(href, "http") THEN href ELSE BASE \o href

(***************************************************************************)
(* parse_natural_language_query.  A Python dict is a sequence of           *)
(* <<key, value>> pairs in insertion order, the order the code iterates.   *)
(***************************************************************************)
furniture_translations ==
    << <<"chair", <<"stoel", "stoelen">> >>,
       <<"armchair", <<"fauteuil", "fauteuils">> >>,
       <<"sofa", <<"bank", "banken">> >>,
       <<"couch", <<"bank", "banken">> >>,
       <<"sideboard", <<"dressoir", "dressoirs">> >>,
       <<"cabinet", <<"kast", "kasten">> >>,
       <<"table", <<"tafel", "tafels">> >>,
       <<"dining table", <<"eettafel", "eettafels">> >>,
       <<"coffee table", <<"salontafel", "salontafels">> >>,
       <<"end table", <<"bijzettafel", "bijzettafels">> >>,
       <<"side table", <<"bijzettafel", "bijzettafels">> >>,
       <<"lamp", <<"lamp", "lampen">> >>,
       <<"floor lamp", <<"vloerlamp", "vloerlampen">> >>,
       <<"pendant lamp", <<"hanglamp", "hanglampen">> >>,
       <<"mirror", <<"spiegel", "spiegels">> >>,
       <<"stool", <<"kruk", "krukken">> >>,
       <<"desk", <<"bureau", "bureaus">> >>,
       <<"shelf", <<"plank", "planken">> >>,
       <<"bookshelf", <<"boekenkast", "boekenkasten">> >>,
       <<"painting", <<"schilderij", "schilderijen">> >>,
       <<"artwork", <<"kunstwerk", "kunstwerken">> >>,
       <<"rug", <<"vloerkleed", "vloerkleden", "tapijt", "tapijten">> >> >>

style_translations ==
    << <<"mid century", <<"teak">> >>,
       <<"scandi", <<"scandinavisch">> >>,
       <<"scandinavian", <<"scandinavisch">> >>,
       <<"japandi", <<"japandi">> >>,
       <<"industrial", <<"industrieel">> >>,
       <<"vintage", <<"vintage">> >>,
       <<"boho", <<"rotan">> >>,
       <<"modern", <<"modern">> >>,
       <<"antique", <<"antiek">> >>,
       <<"minimalist", <<"minimalistisch">> >>,
       <<"rustic", <<"landelijk">> >> >>

color_translations ==
    << <<"red", <<"rood", "rode">> >>,
       <<"blue", <<"blauw", "blauwe">> >>,
       <<"green", <<"groen", "groene">> >>,
       <<"yellow", <<"geel", "gele">> >>,
       <<"orange", <<"oranje">> >>,
       <<"purple", <<"paars", "paarse">> >>,
       <<"pink", <<"roze">> >>,
       <<"black", <<"zwart", "zwarte">> >>,
       <<"white", <<"wit", "witte">> >>,
       <<"grey", <<"grijs", "grijze">> >>,
       <<"gray", <<"grijs", "grijze">> >>,
       <<"brown", <<"bruin", "bruine">> >>,
       <<"beige", <<"beige">> >>,
       <<"cream", <<"crème", "creme">> >>,
       <<"gold", <<"goud", "gouden">> >>,
       <<"silver", <<"zilver", "zilveren">> >>,
       <<"bronze", <<"brons", "bronzen">> >>,
       <<"copper", <<"koper", "koperen">> >>,
       <<"ivory", <<"ivoor", "ivoren">> >>,
       <<"teal", <<"turquoise">> >>,
       <<"burgundy", <<"bordeaux">> >>,
       <<"mustard", <<"mosterd", "mosterdgeel">> >>,
       <<"terracotta", <<"terracotta">> >>,
       <<"olive", <<"olijf", "olijfgroen">> >> >>

\* each pattern is <prefix>(\d+)<suffix>
price_patterns ==
    << [pre |-> "max ", suf |-> " eur"],
       [pre |-> "onder ", suf |-> " eur"],
       [pre |-> "tot ", suf |-> " eur"],
       [pre |-> "max ", suf |-> ""],
       [pre |-> "", suf |-> " eur max"],
       [pre |-> "maximum ", suf |-> ""] >>

dutch_cities ==
    <<"amsterdam", "rotterdam", "utrecht", "eindhoven", "tilburg",
      "groningen", "almere", "breda", "nijmegen", "haarlem", "enschede",
      "apeldoorn", "arnhem", "zaanstad", "den haag", "haag", "maastricht",
      "dordrecht", "leiden", "zoetermeer">>

\* whether <pre>(\d+)<suf> matches s at position i; \d+ is greedy and no
\* suffix starts with a digit, so the group is the whole run of digits
PatternAt(s, pat, i) ==
    LET d == i + Len(pat.pre)
    IN /\ StartsAt(s, pat.pre, i)
       /\ DigitRunEnd(s, d) > d
       /\ StartsAt(s, pat.suf, DigitRunEnd(s, d))

\* re.search(pattern, s) is not None
PatternFound(s, pat) == \E i \in 1..Len(s) : PatternAt(s, pat, i)

\* int(re.search(pattern, s).group(1)): the leftmost match
PatternGroup(s, pat) ==
    LET i == CHOOSE k \in 1..Len(s) :
                 PatternAt(s, pat, k) /\ \A j \in 1..(k - 1) : ~PatternAt(s, pat, j)
        d == i + Len(pat.pre)
    IN ToInt(SubSeq(s, d, DigitRunEnd(s, d) - 1))

\* the first index k of seq with P(seq[k]), or 0
FirstIndex(seq, P(_)) ==
    IF \E k \in 1..Len(seq) : P(seq[k])
    THEN CHOOSE k \in 1..Len(seq) : P(seq[k]) /\ \A j \in 1..(k - 1) : ~P(seq[j])
    ELSE 0

\* the max price the price patterns extract, or None
ExtractMaxPrice(query_lower) ==
    LET Hit(pat) == PatternFound(query_lower, pat)
        k == FirstIndex(price_patterns, Hit)
    IN IF k = 0 THEN None ELSE Some(PatternGroup(query_lower, price_patterns[k]))

\* the first city of dutch_cities the query contains, or None
ExtractLocation(query_lower) ==
    LET Hit(city) == Contains(query_lower, city)
        k == FirstIndex(dutch_cities, Hit)
    IN IF k = 0 THEN None ELSE Some(dutch_cities[k])

RECURSIVE SpaceRunEnd(_, _)
SpaceRunEnd(s, i) ==
    IF i <= Len(s) /\ IsSpace(At(s, i)) THEN SpaceRunEnd(s, i + 1) ELSE i

\* whether (\d+)\s*km matches s at position i
KmAt(s, i) ==
    /\ DigitRunEnd(s, i) > i
    /\ StartsAt(s, "km", SpaceRunEnd(s, DigitRunEnd(s, i)))

\* the radius r'(\d+)\s*km' extracts, or None
ExtractRadius(query_lower) ==
    IF \E i \in 1..Len(query_lower) : KmAt(query_lower, i)
    THEN LET i == CHOOSE k \in 1..Len(query_lower) :
                    KmAt(query_lower, k) /\ \A j \in 1..(k - 1) : ~KmAt(query_lower, j)
         IN Some(ToInt(SubSeq(query_lower, i, DigitRunEnd(query_lower, i) - 1)))
    ELSE None

\* the first key of a translation table the query contains, or 0
FirstKey(table, query_lower) ==
    LET Hit(entry) == Contains(query_lower, entry[1])
    IN FirstIndex(table, Hit)

\* sep.join(parts)
RECURSIVE Join(_, _)
Join(parts, sep) ==
    IF Len(parts) = 0 THEN ""
    ELSE IF Len(parts) = 1 THEN parts[1]
    ELSE parts[1] \o sep \o Join(Tail(parts), sep)

MaxSearchTerms == 3
DefaultRadiusKm == 10

\* the standard detection branch: <<search_terms_parts, item_type, style>>
StandardDetection(query_lower) ==
    LET f == FirstKey(furniture_translations, query_lower)
        s == FirstKey(style_translations, query_lower)
        c == FirstKey(color_translations, query_lower)
    IN [parts |-> (IF f = 0 THEN <<>> ELSE <<furniture_translations[f][2][1]>>)
                  \o (IF s = 0 THEN <<>> ELSE style_translations[s][2])
                  \o (IF c = 0 THEN <<>> ELSE <<color_translations[c][2][1]>>),
        item_type |-> IF f = 0 THEN None ELSE Some(furniture_translations[f][2][1]),
        style |-> IF s = 0 THEN None ELSE Some(style_translations[s][1])]

\* search_terms_parts, item_type and detected_style before the fallback
Detection(query_lower) ==
    IF Contains(query_lower, "design lamp")
    THEN [parts |-> <<"hanglamp", "vloerlamp">>, item_type |-> Some("lamp"),
          style |-> None]
    ELSE IF Contains(query_lower, "industrial style")
    THEN [parts |-> <<"industrieel", "staal">>, item_type |-> None,
          style |-> Some("industrial")]
    ELSE StandardDetection(query_lower)

\* the fallback for unmatched queries
FallbackParts(query, query_lower) ==
    IF Contains(query_lower, "living room") THEN <<"woonkamer">>
    ELSE IF Contains(query_lower, "bedroom") THEN <<"slaapkamer">>
    ELSE IF Contains(query_lower, "dining room") THEN <<"eetkamer">>
    ELSE <<query>>

DefaultLocation == "amsterdam"

\* parse_natural_language_query(query)
parse_natural_language_query(query) ==
    LET query_lower == Lower(query)
        det == Detection(query_lower)
        parts == IF det.parts = <<>> THEN FallbackParts(query, query_lower)
                 ELSE det.parts
        location == ExtractLocation(query_lower)
        radius_km == ExtractRadius(query_lower)
    IN [search_terms |-> Join(SliceTo(parts, MaxSearchTerms), " "),
        max_price_eur |-> ExtractMaxPrice(query_lower),
        min_price_eur |-> None,
        location |-> IF IsNone(location) THEN Some(DefaultLocation) ELSE location,
        radius_km |-> IF IsNone(radius_km) THEN Some(DefaultRadiusKm) ELSE radius_km,
        item_type |-> det.item_type,
        style |-> det.style]

(***************************************************************************)
(* The listing pages.  A page is the sequence of its card elements in      *)
(* document order; an element records the card selectors that match it,    *)
(* the href of its first a[href] (None when it has none) and the text of   *)
(* its price element (None when it has none).                              *)
(***************************************************************************)
SEL_card == "li.mp-Listing"

alt_selectors ==
    <<"li[data-testid='listing-item']", "article[data-testid='listing']",
      ".hz-Listing", ".mp-listing-item", "li.mp-Listing-item">>

\* the alternative selectors of get_style_collection
style_alt_selectors ==
    <<"li[data-testid='listing-item']", "article[data-testid='listing']",
      ".hz-Listing">>

CardA == [sels |-> {SEL_card}, href |-> Some("/a-m1.html"), price |-> Some("€ 25,00")]
CardB == [sels |-> {SEL_card}, href |-> Some("https://www.marktplaats.nl/b-m1/"),
          price |-> Some("Bieden")]
CardC == [sels |-> {SEL_card}, href |-> Some("/v/2"), price |-> Some("€ 5,50")]
CardD == [sels |-> {SEL_card}, href |-> None, price |-> Some("€ 1,00")]
CardE == [sels |-> {".hz-Listing"}, href |-> Some("/a-m3.html"), price |-> None]
CardF == [sels |-> {"li[data-testid='listing-item']"}, href |-> Some("/a-m4.html"),
          price |-> Some("€ 30,00 per stuk")]
CardG == [sels |-> {"li.mp-Listing-item"}, href |-> Some(""), price |-> Some("Gratis")]
\* a listing in markup that none of the card selectors matches
CardH == [sels |-> {"div.hz-Card"}, href |-> Some("/a-m5.html"), price |-> Some("€ 9,00")]

Catalogue == {CardA, CardB, CardC, CardD, CardE, CardF, CardG, CardH}

Documents ==
    { <<>>,
      <<CardA, CardC>>,
      <<CardB, CardA>>,
      <<CardB, CardD, CardC>>,
      <<CardE, CardB, CardF>>,
      <<CardE, CardF>>,
      <<CardG, CardE>>,
      <<CardF, CardC, CardA>>,
      <<CardH>> }

\* what requests.get followed by raise_for_status gives: a page, or an
\* exception (a network error, an HTTP error status)
Responses ==
    {[ok |-> TRUE, doc |-> d, err |-> ""] : d \in Documents}
    \cup {[ok |-> FALSE, doc |-> <<>>, err |-> e] : e \in {"ConnectionError", "HTTPError"}}

\* soup.select(selector)
Select(doc, selector) ==
    LET Matches(e) == selector \in e.sels IN SelectSeq(doc, Matches)

\* the cards of a page with the alternative selectors tried before the
\* primary selector
SelectCards_altFirst(doc, alts) ==
    LET Hit(sel) == Select(doc, sel) # <<>>
        k == FirstIndex(alts, Hit)
    IN IF k = 0 THEN Select(doc, SEL_card) ELSE Select(doc, alts[k])

\* the cards of a page: the primary selector's, or those of the first
\* alternative selector that matches any
SelectCards(doc, alts) ==
    IF Select(doc, SEL_card) # <<>> THEN Select(doc, SEL_card)
    ELSE LET Hit(sel) == Select(doc, sel) # <<>>
             k == FirstIndex(alts, Hit)
         IN IF k = 0 THEN <<>> ELSE Select(doc, alts[k])

\* the item dict built from a card (the fields the model keeps)
MakeItem(c, lid, full_url) ==
    [id |-> lid,
     url |-> full_url,
     price_text |-> translate_price_text_to_english(c.price),
     price_eur |-> parse_price(c.price)]

\* the loop over the cards without the test 'if lid in seen: continue'
RECURSIVE AddCards_noSeenTest(_, _)
AddCards_noSeenTest(cards, acc) ==
    IF cards = <<>> THEN acc
    ELSE LET c == Head(cards)
         IN IF IsNone(c.href) \/ Val(c.href) = ""
            THEN AddCards_noSeenTest(Tail(cards), acc)
            ELSE LET full_url == full_url_of(Val(c.href))
                     lid == extract_id(full_url)
                 IN AddCards_noSeenTest(Tail(cards),
                        [seen |-> acc.seen \cup {lid},
                         items |-> Append(acc.items, MakeItem(c, lid, full_url))])

\* the loop over the cards of one page: acc is [seen, items]
RECURSIVE AddCards(_, _)
AddCards(cards, acc) ==
    IF cards = <<>> THEN acc
    ELSE LET c == Head(cards)
         IN IF IsNone(c.href) \/ Val(c.href) = ""
            THEN AddCards(Tail(cards), acc)
            ELSE LET full_url == full_url_of(Val(c.href))
                     lid == extract_id(full_url)
                 IN IF lid \in acc.seen
                    THEN AddCards(Tail(cards), acc)
                    ELSE AddCards(Tail(cards),
                             [seen |-> acc.seen \cup {lid},
                              items |-> Append(acc.items, MakeItem(c, lid, full_url))])

\* stands for the 1e12 of the sort key: above every price
NullPriceKey == 2000000000

\* the sort key (x["price_eur"] is None, price or 1e12)
SortKey(x) ==
    <<IF IsNone(x.price_eur) THEN 1 ELSE 0,
      IF IsNone(x.price_eur) THEN NullPriceKey ELSE Val(x.price_eur)>>

\* tuple comparison k1 < k2
KeyLess(k1, k2) == k1[1] < k2[1] \/ (k1[1] = k2[1] /\ k1[2] < k2[2])

\* insert x after the elements of the sorted list that are not above it
RECURSIVE InsertSorted(_, _)
InsertSorted(sorted, x) ==
    IF sorted = <<>> THEN <<x>>
    ELSE IF KeyLess(SortKey(x), SortKey(Head(sorted)))
    THEN <<x>> \o sorted
    ELSE <<Head(sorted)>> \o InsertSorted(Tail(sorted), x)

RECURSIVE SortFrom(_, _)
SortFrom(sorted, rest) ==
    IF rest = <<>> THEN sorted
    ELSE SortFrom(InsertSorted(sorted, Head(rest)), Tail(rest))

\* the list left in the order the cards were met
SortByPrice_unsorted(its) == its

\* items.sort(key=...): a stable sort by the key
SortByPrice(its) == SortFrom(<<>>, its)

(***************************************************************************)
(* The state: the handler that is serving the one request of a behaviour,  *)
(* its local variables, the requests it has sent to the site so far, and   *)
(* the response it returned.                                               *)
(***************************************************************************)
VARIABLES
    handler,         \* "none", "scrape", "batch", "smart" or "style"
    pc,              \* "idle", "running" or "done"
    req,             \* the request's parameters
    p,               \* the page the loop is at
    seen,            \* the set of listing ids seen
    items,           \* the list of items gathered
    qi,              \* batch_search: the index of the query the loop is at
    results,         \* batch_search: the results dict, as <<key, value>> pairs
    total_items,     \* batch_search: the running total
    parsed_query,    \* smart_search: what parse_natural_language_query gave
    pos,             \* get_style_collection: the loops' indices
    category_items,  \* get_style_collection: the items of the category
    collection,      \* get_style_collection: the collection dict, as pairs
    hits,            \* the searches that returned a page with cards so far
    outbound,        \* the requests sent: [q |-> search string, p |-> page]
    shown,           \* history: the listing ids on the cards of the pages fetched
    dups,            \* history: how a listing id was repeated on those cards
    fetched,         \* history: None, or Some(what the last fetch of a page
                     \* loop (scrape, batch_search, smart_search) gave)
    response         \* None, or Some(the JSON the handler returned)

vars == <<handler, pc, req, p, seen, items, qi, results, total_items,
          parsed_query, pos, category_items, collection, hits, outbound,
          shown, dups, fetched, response>>

NoReq == [query |-> "", pages |-> 0, queries |-> <<>>,
          max_results_per_query |-> None, style |-> ""]

NoPos == [c |-> 0, t |-> 0, f |-> 0]

Init ==
    /\ handler = "none"
    /\ pc = "idle"
    /\ req = NoReq
    /\ p = 0
    /\ seen = {}
    /\ items = <<>>
    /\ qi = 0
    /\ results = <<>>
    /\ total_items = 0
    /\ parsed_query = None
    /\ pos = NoPos
    /\ category_items = <<>>
    /\ collection = <<>>
    /\ hits = 0
    /\ outbound = <<>>
    /\ shown = {}
    /\ dups = {}
    /\ fetched = None
    /\ response = None

\* the listing ids of the cards that have a link, in page order
CardIds(cards) ==
    LET Linked(c) == ~IsNone(c.href) /\ Val(c.href) # ""
        linked == SelectSeq(cards, Linked)
    IN [k \in 1..Len(linked) |-> extract_id(full_url_of(Val(linked[k].href)))]

\* the history variables after a page with these cards was fetched
Observe(cards) ==
    LET ids == CardIds(cards)
    IN /\ shown' = shown \cup {ids[k] : k \in 1..Len(ids)}
       /\ dups' = dups
                  \cup (IF \E i, j \in 1..Len(ids) : i < j /\ ids[i] = ids[j]
                        THEN {"same page"} ELSE {})
                  \cup (IF \E i \in 1..Len(ids) : ids[i] \in shown
                        THEN {"other page"} ELSE {})

\* the page requested by the url f"{BASE}/q/{query}/?p={p}": the search
\* string and the page number
PageUrl_firstPage(query, page) == [q |-> query, p |-> 1]

PageUrl(query, page) == [q |-> query, p |-> page]

\* an error response that also carries the items gathered so far
ErrorResponse_withItems(message, e) ==
    [error |-> message, details |-> e, items |-> items]

\* the response of an except clause
ErrorResponse(message, e) == [error |-> message, details |-> e]

IsError(r) == "error" \in DOMAIN r

(***************************************************************************)
(* GET /scrape                                                             *)
(***************************************************************************)
ScrapeQueries == {"dressoir", "vintage stoel"}

ScrapeMinPages == 1
ScrapeMaxPages == 5

\* the request arrives (pages is validated ge=1, le=5) and the handler
\* initialises seen and items
ScrapeStart ==
    /\ pc = "idle"
    /\ \E query \in ScrapeQueries, pages \in ScrapeMinPages..ScrapeMaxPages :
          req' = [NoReq EXCEPT !.query = query, !.pages = pages]
    /\ handler' = "scrape"
    /\ pc' = "running"
    /\ p' = 1
    /\ seen' = {}
    /\ items' = <<>>
    /\ UNCHANGED <<qi, results, total_items, parsed_query, pos, category_items,
                   collection, hits, outbound, shown, dups, fetched,
                   response>>

\* what scrape returns on success
ScrapeResponse(query, pages, its) ==
    [query |-> query, pages |-> pages, count |-> Len(SortByPrice(its)),
     items |-> SortByPrice(its)]

\* one iteration of the loop over the pages: the fetch of page p, the cards,
\* and after the last page the sort and the return; an exception of the
\* fetch ends the handler with the error response
ScrapePage ==
    /\ handler = "scrape"
    /\ pc = "running"
    /\ \E resp \in Responses :
          LET acc == AddCards(SelectCards(resp.doc, alt_selectors),
                              [seen |-> seen, items |-> items])
          IN /\ outbound' = Append(outbound, PageUrl(req.query, p))
             /\ fetched' = Some(resp)
             /\ Observe(SelectCards(resp.doc, alt_selectors))
             /\ IF ~resp.ok
                THEN /\ response' = Some(ErrorResponse(
                                       "An error occurred while scraping", resp.err))
                     /\ pc' = "done"
                     /\ UNCHANGED <<p, seen, items>>
                ELSE /\ seen' = acc.seen
                     /\ IF p = req.pages
                        THEN /\ items' = SortByPrice(acc.items)
                             /\ response' = Some(ScrapeResponse(req.query, req.pages,
                                                                acc.items))
                             /\ pc' = "done"
                             /\ p' = p
                        ELSE /\ items' = acc.items
                             /\ p' = p + 1
                             /\ UNCHANGED <<pc, response>>
    /\ UNCHANGED <<handler, req, qi, results, total_items, parsed_query, pos,
                   category_items, collection, hits>>

(***************************************************************************)
(* POST /smart-search                                                      *)
(***************************************************************************)
SmartQueries ==
    {furniture_translations[k][1] : k \in 1..Len(furniture_translations)}
    \cup {style_translations[k][1] : k \in 1..Len(style_translations)}
    \cup {"mid century living room", "vintage chair under €100 in Amsterdam",
          "industrial table Rotterdam", "scandinavian lamp", "cool retro couch",
          "design lamp", "industrial style", "hello", "under €150",
          "chair max 0 eur", "chair max 20 eur", "Tafel MAX 5", "lamp 30 eur max",
          "kast den haag 15 km"}

SmartPages == 2
SmartLimit == 20

\* the request arrives and the handler parses the query
SmartStart ==
    /\ pc = "idle"
    /\ \E query \in SmartQueries :
          /\ req' = [NoReq EXCEPT !.query = query]
          /\ parsed_query' = Some(parse_natural_language_query(query))
    /\ handler' = "smart"
    /\ pc' = "running"
    /\ p' = 1
    /\ seen' = {}
    /\ items' = <<>>
    /\ UNCHANGED <<qi, results, total_items, pos, category_items, collection,
                   hits, outbound, shown, dups, fetched, response>>

\* Python's truth value of an optional number
TruthyNum(o) == ~IsNone(o) /\ Val(o) # 0

\* Python's truth value of an optional string
TruthyStr(o) == ~IsNone(o) /\ Val(o) # ""

\* the filter by max price (the min price is never set)
FilterByMaxPrice(its, parsed) ==
    IF TruthyNum(parsed.max_price_eur)
    THEN LET Keep(item) == \/ IsNone(item.price_eur)
                           \/ Val(item.price_eur) <= 100 * Val(parsed.max_price_eur)
         IN SelectSeq(its, Keep)
    ELSE its

\* the formatted item of the response (the fields the model keeps)
FormatItem(item) ==
    [price |-> item.price_eur,
     price_text |-> translate_price_text_to_english(item.price_text),
     currency |-> "EUR",
     url |-> item.url,
     source |-> "Marktplaats"]

item_type_mapping ==
    << <<"stoel", "chair">>, <<"tafel", "table">>, <<"lamp", "lamp">>,
       <<"bank", "sofa">>, <<"kast", "cabinet">>, <<"fauteuil", "chair">> >>

\* item_type_mapping.get(item_type, item_type)
EnglishItemType(item_type) ==
    IF IsNone(item_type) THEN None
    ELSE LET Hit(entry) == entry[1] = Val(item_type)
             k == FirstIndex(item_type_mapping, Hit)
         IN IF k = 0 THEN item_type ELSE Some(item_type_mapping[k][2])

\* the parsed_query of the response
FormatParsedQuery(parsed) ==
    [item_type |-> EnglishItemType(parsed.item_type),
     style |-> parsed.style,
     min_price |-> parsed.min_price_eur,
     max_price |-> parsed.max_price_eur,
     city |-> IF TruthyStr(parsed.location) THEN Val(parsed.location) ELSE "Amsterdam",
     radius_km |-> parsed.radius_km]

GenericMaxWords == 2

Suggestions ==
    <<"vintage style", "under €150", "mid century modern", "industrial look",
      "in Rotterdam", "scandinavian design">>

\* whether the handler adds suggestions
IsGeneric(query, parsed) ==
    /\ WordCount(query) <= GenericMaxWords
    /\ ~(TruthyStr(parsed.style) \/ TruthyNum(parsed.max_price_eur)
         \/ TruthyStr(parsed.location))

\* the sequence seq with f applied to each element
MapSeq(seq, f(_)) == [k \in 1..Len(seq) |-> f(seq[k])]

\* what smart_search returns on success
SmartResponse(query, parsed, its) ==
    LET filtered == SortByPrice(FilterByMaxPrice(its, parsed))
        formatted == MapSeq(SliceTo(filtered, SmartLimit), FormatItem)
    IN IF IsGeneric(query, parsed)
       THEN [parsed_query |-> FormatParsedQuery(parsed), items |-> formatted,
             suggestions |-> Suggestions]
       ELSE [parsed_query |-> FormatParsedQuery(parsed), items |-> formatted]

\* one iteration of the loop over the two pages, and after the second page
\* the filter, the sort, the formatting and the return
SmartPage ==
    /\ handler = "smart"
    /\ pc = "running"
    /\ \E resp \in Responses :
          LET parsed == Val(parsed_query)
              acc == AddCards(SelectCards(resp.doc, alt_selectors),
                              [seen |-> seen, items |-> items])
          IN /\ outbound' = Append(outbound, PageUrl(parsed.search_terms, p))
             /\ fetched' = Some(resp)
             /\ Observe(SelectCards(resp.doc, alt_selectors))
             /\ IF ~resp.ok
                THEN /\ response' = Some(ErrorResponse(
                                       "An error occurred during smart search", resp.err))
                     /\ pc' = "done"
                     /\ UNCHANGED <<p, seen, items>>
                ELSE /\ seen' = acc.seen
                     /\ IF p = SmartPages
                        THEN /\ items' = (IF TruthyNum(parsed.max_price_eur)
                                          THEN acc.items
                                          ELSE SortByPrice(acc.items))
                             /\ response' = Some(SmartResponse(req.query, parsed,
                                                               acc.items))
                             /\ pc' = "done"
                             /\ p' = p
                        ELSE /\ items' = acc.items
                             /\ p' = p + 1
                             /\ UNCHANGED <<pc, response>>
    /\ UNCHANGED <<handler, req, qi, results, total_items, parsed_query, pos,
                   category_items, collection, hits>>

(***************************************************************************)
(* POST /batch-search                                                      *)
(***************************************************************************)
BatchQueries == {"vintage chair", "ceramic vase"}

MaxQueries == 2

DefaultMaxResults == 20

\* the values of max_results_per_query: 20 when the field is omitted, null,
\* and integers (the field is Optional[int], with no validation)
BatchMaxResults ==
    {Some(DefaultMaxResults), None, Some(-1), Some(0), Some(1), Some(2)}

\* all sequences over S of length at most n
SeqsUpTo(S, n) == UNION {[1..k -> S] : k \in 0..n}

\* what batch_search returns on success
BatchResponse(queries, total, res) ==
    [total_queries |-> Len(queries), total_items |-> total, results |-> res]

\* the request arrives; with an empty list of queries the loop body never
\* runs and the handler returns at once
BatchStart ==
    /\ pc = "idle"
    /\ \E queries \in SeqsUpTo(BatchQueries, MaxQueries), n \in BatchMaxResults :
          /\ req' = [NoReq EXCEPT !.queries = queries, !.max_results_per_query = n]
          /\ IF queries = <<>>
             THEN /\ pc' = "done"
                  /\ response' = Some(BatchResponse(queries, 0, <<>>))
                  /\ qi' = 0
             ELSE /\ pc' = "running"
                  /\ response' = response
                  /\ qi' = 1
    /\ handler' = "batch"
    /\ results' = <<>>
    /\ total_items' = 0
    /\ UNCHANGED <<p, seen, items, parsed_query, pos, category_items, collection,
                   hits, outbound, shown, dups, fetched>>

\* d[key] = value on a dict kept as a sequence of <<key, value>> pairs
DictSet(d, key, value) ==
    IF \E k \in 1..Len(d) : d[k][1] = key
    THEN [k \in 1..Len(d) |-> IF d[k][1] = key THEN <<key, value>> ELSE d[k]]
    ELSE Append(d, <<key, value>>)

DictKeys(d) == {d[k][1] : k \in 1..Len(d)}

\* d[key], for a key of d
DictGet(d, key) == d[CHOOSE k \in 1..Len(d) : d[k][1] = key][2]

\* request.max_results_per_query or 20
CardLimit(n) == IF TruthyNum(n) THEN Val(n) ELSE DefaultMaxResults

\* one iteration of the loop over the queries: the one page fetched for the
\* query, its cards cut to the limit, the sort, the entry of results; after
\* the last query the return
BatchQuery ==
    /\ handler = "batch"
    /\ pc = "running"
    /\ \E resp \in Responses :
          LET query == req.queries[qi]
              cards == SelectCards(resp.doc, alt_selectors)
              acc == AddCards(SliceTo(cards, CardLimit(req.max_results_per_query)),
                              [seen |-> {}, items |-> <<>>])
              sorted == SortByPrice(acc.items)
              res == DictSet(results, query, [count |-> Len(sorted), items |-> sorted])
              total == total_items + Len(sorted)
          IN /\ outbound' = Append(outbound, PageUrl(query, 1))
             /\ fetched' = Some(resp)
             /\ Observe(cards)
             /\ IF ~resp.ok
                THEN /\ response' = Some(ErrorResponse(
                                       "An error occurred during batch search", resp.err))
                     /\ pc' = "done"
                     /\ UNCHANGED <<qi, seen, items, results, total_items>>
                ELSE /\ seen' = acc.seen
                     /\ items' = sorted
                     /\ results' = res
                     /\ total_items' = total
                     /\ IF qi = Len(req.queries)
                        THEN /\ response' = Some(BatchResponse(req.queries, total, res))
                             /\ pc' = "done"
                             /\ qi' = qi
                        ELSE /\ qi' = qi + 1
                             /\ UNCHANGED <<pc, response>>
    /\ UNCHANGED <<handler, req, p, parsed_query, pos, category_items, collection,
                   hits>>

(***************************************************************************)
(* POST /style-collection                                                  *)
(***************************************************************************)
style_patterns ==
    << <<"mid century",
         [search_terms |-> <<"teak", "mcm", "jaren 60">>,
          furniture_types |-> << <<"chairs", <<"stoel", "fauteuil">> >>,
                                 <<"tables", <<"tafel", "salontafel">> >>,
                                 <<"storage", <<"kast", "dressoir">> >>,
                                 <<"lighting", <<"lamp">> >> >>] >>,
       <<"vintage",
         [search_terms |-> <<"vintage", "retro">>,
          furniture_types |-> << <<"chairs", <<"stoel", "fauteuil">> >>,
                                 <<"tables", <<"tafel">> >>,
                                 <<"storage", <<"kast">> >>,
                                 <<"lighting", <<"lamp">> >>,
                                 <<"decor", <<"spiegel", "schilderij">> >> >>] >>,
       <<"industrial",
         [search_terms |-> <<"industrieel", "metaal">>,
          furniture_types |-> << <<"chairs", <<"stoel">> >>,
                                 <<"tables", <<"tafel">> >>,
                                 <<"storage", <<"kast">> >>,
                                 <<"lighting", <<"lamp">> >> >>] >>,
       <<"scandi",
         [search_terms |-> <<"licht hout", "beige">>,
          furniture_types |-> << <<"chairs", <<"stoel">> >>,
                                 <<"tables", <<"tafel", "eettafel">> >>,
                                 <<"storage", <<"kast">> >>,
                                 <<"lighting", <<"lamp">> >> >>] >> >>

\* the keys of the parser's style table
AvailableStyles_parserStyles ==
    [k \in 1..Len(style_translations) |-> style_translations[k][1]]

\* list(style_patterns.keys())
AvailableStyles == [k \in 1..Len(style_patterns) |-> style_patterns[k][1]]

StyleRequests ==
    {"mid century", "Vintage", "industrial", "SCANDI", "boho", "Scandinavian"}

\* the pages of Documents the site returns to the searches of a style
\* collection
StyleDocuments ==
    { <<>>,
      <<CardA, CardC>>,
      <<CardE, CardB, CardF>> }

\* at most this many searches of one style collection return a page with
\* cards; the others return a page without cards, or fail
MaxHits == 2

StyleResponses(h) ==
    {r \in Responses : \/ ~r.ok
                       \/ r.doc = <<>>
                       \/ (r.doc \in StyleDocuments /\ h < MaxHits)}

StyleCardLimit == 3
CategoryLimit == 6

\* the request arrives; an unsupported style is answered at once
StyleStart ==
    /\ pc = "idle"
    /\ \E style \in StyleRequests :
          /\ req' = [NoReq EXCEPT !.style = style]
          /\ IF Lower(style) \in DictKeys(style_patterns)
             THEN /\ pc' = "running"
                  /\ response' = response
                  /\ pos' = [c |-> 1, t |-> 1, f |-> 1]
             ELSE /\ pc' = "done"
                  /\ response' = Some([error |-> "Style '" \o style \o "' not supported",
                                       available_styles |-> AvailableStyles])
                  /\ pos' = NoPos
    /\ handler' = "style"
    /\ seen' = {}
    /\ category_items' = <<>>
    /\ collection' = <<>>
    /\ hits' = 0
    /\ UNCHANGED <<p, items, qi, results, total_items, parsed_query, outbound,
                   shown, dups, fetched>>

\* the item dict get_style_collection builds from a card: the price is
\* parsed from the translated price text
MakeStyleItem(c, lid, full_url, style_term, furniture_type) ==
    LET price_text == IF IsNone(c.price) THEN Some("")
                      ELSE translate_price_text_to_english(c.price)
    IN [id |-> lid,
        url |-> full_url,
        price_text |-> price_text,
        style_match |-> style_term,
        furniture_type |-> furniture_type,
        price_eur |-> parse_price(price_text)]

\* the loop over the cards of one search: acc is [seen, items]
RECURSIVE AddStyleCards(_, _, _, _)
AddStyleCards(cards, acc, style_term, furniture_type) ==
    IF cards = <<>> THEN acc
    ELSE LET c == Head(cards)
         IN IF IsNone(c.href) \/ Val(c.href) = ""
            THEN AddStyleCards(Tail(cards), acc, style_term, furniture_type)
            ELSE LET full_url == full_url_of(Val(c.href))
                     lid == extract_id(full_url)
                 IN IF lid \in acc.seen
                    THEN AddStyleCards(Tail(cards), acc, style_term, furniture_type)
                    ELSE AddStyleCards(Tail(cards),
                             [seen |-> acc.seen \cup {lid},
                              items |-> Append(acc.items,
                                          MakeStyleItem(c, lid, full_url, style_term,
                                                        furniture_type))],
                             style_term, furniture_type)

\* the collection after a category's searches: a category without items
\* gets no entry
CloseCategory(coll, category, its) ==
    IF its = <<>> THEN coll
    ELSE DictSet(coll, category, SliceTo(SortByPrice(its), CategoryLimit))

\* the search string with its two words in the other order
SearchQuery_swapped(style_term, furniture_type) ==
    furniture_type \o " " \o style_term

\* the search string of one search
SearchQuery(style_term, furniture_type) == style_term \o " " \o furniture_type

\* what get_style_collection returns on success
StyleResponse(style, coll) ==
    [style |-> style, total_categories |-> Len(coll), collection |-> coll]

\* one search: the page-1 request for '<style term> <furniture type>' and
\* its cards; an exception of the search is logged and the loop goes on.
\* After the last search of a category the category is sorted, cut and
\* stored, and after the last category the handler returns.
StyleSearch ==
    /\ handler = "style"
    /\ pc = "running"
    /\ \E resp \in StyleResponses(hits) :
          LET pattern == DictGet(style_patterns, Lower(req.style))
              cats == pattern.furniture_types
              category == cats[pos.c][1]
              furniture_types == cats[pos.c][2]
              style_term == pattern.search_terms[pos.t]
              furniture_type == furniture_types[pos.f]
              search_query == SearchQuery(style_term, furniture_type)
              acc == IF resp.ok
                     THEN AddStyleCards(
                              SliceTo(SelectCards(resp.doc, style_alt_selectors),
                                      StyleCardLimit),
                              [seen |-> seen, items |-> category_items],
                              style_term, furniture_type)
                     ELSE [seen |-> seen, items |-> category_items]
              lastType == pos.f = Len(furniture_types)
              lastTerm == pos.t = Len(pattern.search_terms)
              lastCat == pos.c = Len(cats)
              coll == CloseCategory(collection, category, acc.items)
          IN /\ outbound' = Append(outbound, PageUrl(search_query, 1))
             /\ Observe(SelectCards(resp.doc, style_alt_selectors))
             /\ hits' = IF resp.ok /\ resp.doc # <<>> THEN hits + 1 ELSE hits
             /\ IF ~lastType
                THEN /\ pos' = [pos EXCEPT !.f = pos.f + 1]
                     /\ seen' = acc.seen
                     /\ category_items' = acc.items
                     /\ UNCHANGED <<collection, pc, response>>
                ELSE IF ~lastTerm
                THEN /\ pos' = [pos EXCEPT !.t = pos.t + 1, !.f = 1]
                     /\ seen' = acc.seen
                     /\ category_items' = acc.items
                     /\ UNCHANGED <<collection, pc, response>>
                ELSE IF ~lastCat
                THEN /\ pos' = [c |-> pos.c + 1, t |-> 1, f |-> 1]
                     /\ seen' = {}
                     /\ category_items' = <<>>
                     /\ collection' = coll
                     /\ UNCHANGED <<pc, response>>
                ELSE /\ pos' = pos
                     /\ seen' = acc.seen
                     /\ category_items' = SortByPrice(acc.items)
                     /\ collection' = coll
                     /\ pc' = "done"
                     /\ response' = Some(StyleResponse(req.style, coll))
    /\ UNCHANGED <<handler, req, p, items, qi, results, total_items, parsed_query,
                   fetched>>

(***************************************************************************)
(* The specification: one request, served by its handler.                  *)
(***************************************************************************)
Next ==
    \/ ScrapeStart
    \/ ScrapePage
    \/ BatchStart
    \/ BatchQuery
    \/ SmartStart
    \/ SmartPage
    \/ StyleStart
    \/ StyleSearch

Spec == Init /\ [][Next]_vars

(***************************************************************************)
(* The properties checked.                                                 *)
(***************************************************************************)
\* the handler has returned a response that is not an error object
Succeeded(h) ==
    /\ handler = h
    /\ pc = "done"
    /\ ~IsError(Val(response))

\* the set of the elements of a sequence
Range(seq) == {seq[k] : k \in 1..Len(seq)}

\* C1: in a successful /scrape response no two items have the same id; every
\* listing id shown on a card of the pages fetched, once or several times, on
\* one page or on several, is the id of exactly one item; and count is the
\* number of distinct ids.
C1_ScrapeIdsUnique ==
    Succeeded("scrape") =>
        LET r == Val(response)
            ids == {r.items[k].id : k \in 1..Len(r.items)}
        IN /\ \A i, j \in 1..Len(r.items) : i # j => r.items[i].id # r.items[j].id
           /\ ids = shown
           /\ \A id \in shown :
                 Cardinality({k \in 1..Len(r.items) : r.items[k].id = id}) = 1
           /\ r.count = Cardinality(ids)
           /\ r.count = Len(r.items)

\* a successful /scrape of several pages on which a listing id was repeated
\* both within a page and across pages
C1_Witness ==
    /\ Succeeded("scrape")
    /\ req.pages >= 2
    /\ dups = {"same page", "other page"}
    /\ Val(response).count >= 2

\* a list of optional prices with the numeric prices first, in non-decreasing
\* order, and the null prices after them
PricesOrdered(prices) ==
    \A i, j \in 1..Len(prices) :
        i < j => /\ IsNone(prices[i]) => IsNone(prices[j])
                 /\ (~IsNone(prices[i]) /\ ~IsNone(prices[j]))
                        => Val(prices[i]) <= Val(prices[j])

\* the price_eur fields of a list of items
PricesOf(its) == [k \in 1..Len(its) |-> its[k].price_eur]

\* C2: the items /scrape returns, those /batch-search returns for each query
\* and those /style-collection returns for each category have the items
\* with a numeric price_eur first, in non-decreasing order of price_eur, and
\* the items with a null price_eur after them; so have the items of
\* /smart-search, by their price field.
C2_ItemsOrderedByPrice ==
    /\ Succeeded("scrape") => PricesOrdered(PricesOf(Val(response).items))
    /\ Succeeded("batch") =>
          \A k \in 1..Len(Val(response).results) :
              PricesOrdered(PricesOf(Val(response).results[k][2].items))
    /\ Succeeded("style") =>
          \A k \in 1..Len(Val(response).collection) :
              PricesOrdered(PricesOf(Val(response).collection[k][2]))
    /\ Succeeded("smart") =>
          PricesOrdered([k \in 1..Len(Val(response).items) |->
                            Val(response).items[k].price])

\* a successful /scrape whose cards came with a null price before a numeric
\* one and a higher price before a lower one, and that returns three items
C2_Witness ==
    /\ Succeeded("scrape")
    /\ Len(Val(response).items) >= 3
    /\ \E k \in 1..Len(Val(response).items) : IsNone(Val(response).items[k].price_eur)
    /\ \E i, j \in 1..Len(Val(response).items) :
          /\ ~IsNone(Val(response).items[i].price_eur)
          /\ ~IsNone(Val(response).items[j].price_eur)
          /\ Val(Val(response).items[i].price_eur) < Val(Val(response).items[j].price_eur)
    /\ ~PricesOrdered(PricesOf(AddCards(<<CardB, CardA>> \o <<CardF, CardC, CardA>>,
                                        [seen |-> {}, items |-> <<>>]).items))
    /\ Range(Val(response).items)
          = Range(AddCards(<<CardB, CardA>> \o <<CardF, CardC, CardA>>,
                           [seen |-> {}, items |-> <<>>]).items)

\* C3: whenever parse_natural_language_query extracted a maximum price N from
\* the query, every item /smart-search returns has no numeric price or a
\* price of at most N (prices are in cents).
C3_MaxPriceRespected ==
    (Succeeded("smart") /\ ~IsNone(Val(parsed_query).max_price_eur)) =>
        \A k \in 1..Len(Val(response).items) :
            \/ IsNone(Val(response).items[k].price)
            \/ Val(Val(response).items[k].price)
                  <= 100 * Val(Val(parsed_query).max_price_eur)

\* the limit a /batch-search request asks for: max_results_per_query, and
\* 20 when the request carries none
RequestedLimit(n) == IF IsNone(n) THEN DefaultMaxResults ELSE Val(n)

\* C4: for every query of a /batch-search request the number of items
\* returned is at most max_results_per_query, whatever integer it is (read
\* as: no item at all for a limit below zero).
C4_AtMostMaxResults ==
    Succeeded("batch") =>
        \A k \in 1..Len(Val(response).results) :
            /\ Val(response).results[k][2].count
                  <= Max(RequestedLimit(req.max_results_per_query), 0)
            /\ Len(Val(response).results[k][2].items)
                  <= Max(RequestedLimit(req.max_results_per_query), 0)

\* the sum of count over the entries of a results dict
RECURSIVE SumCounts(_)
SumCounts(res) ==
    IF res = <<>> THEN 0 ELSE Head(res)[2].count + SumCounts(Tail(res))

\* C5: in a successful /batch-search response results has one entry per
\* submitted query, so that total_queries is the number of entries of
\* results, and total_items is the sum of count over the entries.
C5_BatchTotalsAgree ==
    Succeeded("batch") =>
        /\ Val(response).total_queries = Len(req.queries)
        /\ Val(response).total_queries = Len(Val(response).results)
        /\ Val(response).total_items = SumCounts(Val(response).results)

\* the pattern of the style a /style-collection request names
PatternOf(style) == DictGet(style_patterns, Lower(style))

\* the sum of the lengths of the furniture type lists of the categories
RECURSIVE CountTypes(_)
CountTypes(cats) ==
    IF cats = <<>> THEN 0 ELSE Len(Head(cats)[2]) + CountTypes(Tail(cats))

\* the number of searches of a style: style terms times furniture types
TotalSearches(style) ==
    Len(PatternOf(style).search_terms) * CountTypes(PatternOf(style).furniture_types)

\* the number of requests sent that are equal to r
TimesSent(r) == Cardinality({k \in 1..Len(outbound) : outbound[k] = r})

\* C6: for a supported style /style-collection sends, for each category and
\* each pair (style term, furniture type) of it, exactly one request, for
\* page 1 of the search '<style term> <furniture type>'; it sends as many
\* requests as there are style terms times furniture types over all
\* categories, and it has returned exactly when it has sent them all.
C6_StyleSearches ==
    (handler = "style" /\ Lower(req.style) \in DictKeys(style_patterns)) =>
        LET pattern == PatternOf(req.style)
            cats == pattern.furniture_types
        IN /\ Len(outbound) <= TotalSearches(req.style)
           /\ pc = "done" <=> Len(outbound) = TotalSearches(req.style)
           /\ \A k \in 1..Len(outbound) :
                 /\ outbound[k].p = 1
                 /\ \E c \in 1..Len(cats), t \in 1..Len(pattern.search_terms) :
                       \E f \in 1..Len(cats[c][2]) :
                          outbound[k].q = pattern.search_terms[t] \o " " \o cats[c][2][f]
           /\ \A c \in 1..Len(cats), t \in 1..Len(pattern.search_terms) :
                 \A f \in 1..Len(cats[c][2]) :
                    LET r == [q |-> pattern.search_terms[t] \o " " \o cats[c][2][f],
                              p |-> 1]
                    IN /\ TimesSent(r) <= 1
                       /\ pc = "done" => TimesSent(r) = 1
           /\ pc = "done" => ~IsNone(response) /\ ~IsError(Val(response))

\* a /style-collection of the style with the most searches has returned,
\* some of its searches having found listings
C6_Witness ==
    /\ Succeeded("style")
    /\ req.style = "mid century"
    /\ Len(outbound) = TotalSearches(req.style)
    /\ hits = MaxHits
    /\ Val(response).total_categories >= 1

\* the raw price text of the catalogue card with this url
RawPriceText(url) ==
    (CHOOSE c \in Catalogue : ~IsNone(c.href) /\ Val(c.href) # ""
                              /\ full_url_of(Val(c.href)) = url).price

\* C7: the price_text of every item /scrape returns is the raw price text
\* of its listing card: a card that shows 'Bieden' gives price_text 'Bieden'.
C7_PriceTextIsRaw ==
    Succeeded("scrape") =>
        \A k \in 1..Len(Val(response).items) :
            Val(response).items[k].price_text
                = RawPriceText(Val(response).items[k].url)

\* C8: a successful /smart-search response to a query of at most two words
\* contains a non-empty suggestions list.
C8_GenericQueryGetsSuggestions ==
    (Succeeded("smart") /\ WordCount(req.query) <= 2) =>
        /\ "suggestions" \in DOMAIN Val(response)
        /\ Val(response).suggestions # <<>>

\* str.upper() on one character
UpperChar(c) ==
    IF \E i \in 1..26 : At(LowerAlpha, i) = c
    THEN At(UpperAlpha, CHOOSE i \in 1..26 : At(LowerAlpha, i) = c)
    ELSE c

\* str.title() of a lower-case string: every word starts with a capital
RECURSIVE TitleFrom(_, _)
TitleFrom(s, i) ==
    IF i > Len(s) THEN ""
    ELSE (IF i = 1 \/ IsSpace(At(s, i - 1)) THEN UpperChar(At(s, i)) ELSE At(s, i))
         \o TitleFrom(s, i + 1)

Title(s) == TitleFrom(s, 1)

\* the supported cities a query names
CitiesNamed(query) == {c \in Range(dutch_cities) : Contains(Lower(query), c)}

\* C9: the city of parsed_query in a /smart-search response is the
\* capitalised city name: 'Amsterdam' when the query names no city, and
\* the named city when the query contains a supported city.
C9_CityCapitalised ==
    Succeeded("smart") =>
        IF CitiesNamed(req.query) = {}
        THEN Val(response).parsed_query.city = "Amsterdam"
        ELSE Val(response).parsed_query.city
                \in {Title(c) : c \in CitiesNamed(req.query)}

\* the English furniture words (the keys of the furniture table) in a query
FurnitureWordsIn(query) ==
    {furniture_translations[k][1] : k \in
        {j \in 1..Len(furniture_translations) :
            Contains(Lower(query), furniture_translations[j][1])}}

\* C10: the item_type of parsed_query in a /smart-search response is the
\* English furniture word that occurs in the query, and null when the query
\* contains no furniture word.
C10_ItemTypeIsQueryWord ==
    Succeeded("smart") =>
        IF FurnitureWordsIn(req.query) = {}
        THEN IsNone(Val(response).parsed_query.item_type)
        ELSE /\ ~IsNone(Val(response).parsed_query.item_type)
             /\ Val(Val(response).parsed_query.item_type) \in FurnitureWordsIn(req.query)

\* whether sub occurs in s as whole words: not inside a longer word
HasWord(s, sub) ==
    \E i \in 1..Len(s) :
        /\ StartsAt(s, sub, i)
        /\ i = 1 \/ ~IsWordChar(At(s, i - 1))
        /\ i + Len(sub) > Len(s) \/ ~IsWordChar(At(s, i + Len(sub)))

\* the style words (the keys of the style table) among the words of a query
StyleWordsIn(query) ==
    {style_translations[k][1] : k \in
        {j \in 1..Len(style_translations) :
            HasWord(Lower(query), style_translations[j][1])}}

\* C11: in a /smart-search response the style of parsed_query is the style
\* word of the query when the query has exactly one (a key of the style
\* translation table: 'scandinavian lamp' gives 'scandinavian'), and null
\* when the query has no style word.
C11_StyleIsQueryWord ==
    Succeeded("smart") =>
        LET words == StyleWordsIn(req.query)
            style == Val(response).parsed_query.style
        IN /\ words = {} => IsNone(style)
           /\ \A k \in words : words = {k} => style = Some(k)

\* whether 'under €<digits>' is in s at position i
UnderEuroAt(s, i) ==
    /\ StartsAt(s, "under €", i)
    /\ DigitRunEnd(s, i + Len("under €")) > i + Len("under €")

\* whether a query states a price ceiling in the form 'under €N'
StatesCeiling(query) == \E i \in 1..Len(query) : UnderEuroAt(Lower(query), i)

\* the N of the first 'under €N' of a query that has one
StatedCeiling(query) ==
    LET s == Lower(query)
        i == CHOOSE k \in 1..Len(s) :
                 UnderEuroAt(s, k) /\ \A j \in 1..(k - 1) : ~UnderEuroAt(s, j)
        d == i + Len("under €")
    IN ToInt(SubSeq(s, d, DigitRunEnd(s, d) - 1))

\* C12: a /smart-search query that states a price ceiling as 'under €N' gets
\* a response whose parsed_query has max_price N and whose items have no
\* numeric price above N (prices are in cents).
C12_UnderEuroIsMaxPrice ==
    (Succeeded("smart") /\ StatesCeiling(req.query)) =>
        /\ Val(response).parsed_query.max_price = Some(StatedCeiling(req.query))
        /\ \A k \in 1..Len(Val(response).items) :
              \/ IsNone(Val(response).items[k].price)
              \/ Val(Val(response).items[k].price) <= 100 * StatedCeiling(req.query)

\* the handlers that fetch their pages inside the handler's one try block
PageLoopHandlers == {"scrape", "batch", "smart"}

\* the last fetch of the handler raised an exception
FetchFailed == ~IsNone(fetched) /\ ~Val(fetched).ok

\* C13: when a page fetch of /scrape, /batch-search or /smart-search fails,
\* the handler has stopped and returned (no exception reaches the caller) an
\* object whose only keys are 'error' and 'details', the details being those
\* of the failure: nothing gathered before the failure is in it.
C13_FetchFailureGivesErrorOnly ==
    (handler \in PageLoopHandlers /\ FetchFailed) =>
        /\ pc = "done"
        /\ ~IsNone(response)
        /\ DOMAIN Val(response) = {"error", "details"}
        /\ Val(response).details = Val(fetched).err

\* a fetch failed after earlier fetches had brought items: the second query
\* of a /batch-search after a first query with results
C13_Witness ==
    /\ handler = "batch"
    /\ FetchFailed
    /\ Len(outbound) = 2
    /\ results # <<>>
    /\ results[1][2].count >= 2
    /\ total_items >= 2
    /\ IsError(Val(response))

\* the four supported styles
SupportedStyles == {"mid century", "vintage", "industrial", "scandi"}

\* C14: /style-collection with a style that, in lower case, is none of the
\* four supported styles has returned an object with the keys 'error' and
\* 'available_styles' only, the error naming the style as it was given and
\* available_styles listing the four supported styles, each once; and it has
\* sent no request.
C14_UnsupportedStyle ==
    (handler = "style" /\ Lower(req.style) \notin SupportedStyles) =>
        /\ pc = "done"
        /\ ~IsNone(response)
        /\ DOMAIN Val(response) = {"error", "available_styles"}
        /\ Contains(Val(response).error, "'" \o req.style \o "'")
        /\ Range(Val(response).available_styles) = SupportedStyles
        /\ Len(Val(response).available_styles) = Cardinality(SupportedStyles)
        /\ outbound = <<>>

\* a /style-collection for a style the parser knows and the collection does
\* not, given with a capital, has been answered
C14_Witness ==
    /\ handler = "style"
    /\ req.style = "Scandinavian"
    /\ pc = "done"
    /\ IsError(Val(response))

\* the requests sent so far are those for the pages 1, 2, ... of the search
\* string q, at most n of them, and all n when the handler succeeded
PagesInOrder(q, n) ==
    /\ Len(outbound) <= n
    /\ \A k \in 1..Len(outbound) : outbound[k] = [q |-> q, p |-> k]
    /\ ~IsNone(response) /\ ~IsError(Val(response)) => Len(outbound) = n

\* the requests /scrape, /smart-search and /batch-search have sent so far
RequestsInOrder ==
    /\ handler = "scrape" => PagesInOrder(req.query, req.pages)
    /\ handler = "smart" => PagesInOrder(Val(parsed_query).search_terms, SmartPages)
    /\ handler = "batch" =>
          /\ Len(outbound) <= Len(req.queries)
          /\ \A k \in 1..Len(outbound) : outbound[k] = [q |-> req.queries[k], p |-> 1]
          /\ ~IsNone(response) /\ ~IsError(Val(response))
                => Len(outbound) = Len(req.queries)

MatchedBy(doc, selector) ==
    LET Matches(e) == selector \in e.sels IN SelectSeq(doc, Matches)

\* the alternative selectors of /scrape that match an element of a page
AltsMatching(doc) ==
    {k \in 1..Len(alt_selectors) : MatchedBy(doc, alt_selectors[k]) # <<>>}

\* the cards of a page by the cascade: the primary selector's when it
\* matches any, else those of the first alternative that matches any, else
\* none
CascadeCards(doc) ==
    IF MatchedBy(doc, SEL_card) # <<>> THEN MatchedBy(doc, SEL_card)
    ELSE IF AltsMatching(doc) = {} THEN <<>>
    ELSE MatchedBy(doc, alt_selectors[CHOOSE k \in AltsMatching(doc) :
                                          \A j \in AltsMatching(doc) : k <= j])

\* C16: every page /scrape fetches adds to the listings seen exactly the
\* linked cards of the cascade: those of the primary selector when it
\* matches any card, else those of the first alternative selector, in the
\* listed order, that matches any; a page on which no selector matches adds
\* nothing, and a request whose last page it is still succeeds.
C16_SelectorCascade ==
    [][(handler = "scrape" /\ pc = "running" /\ ~IsNone(fetched') /\ Val(fetched').ok)
        => LET cards == CascadeCards(Val(fetched').doc)
           IN /\ seen' = seen \cup Range(CardIds(cards))
              /\ {items'[k].id : k \in 1..Len(items')} = seen'
              /\ cards = <<>> =>
                    /\ Range(items') = Range(items)
                    /\ p = req.pages => (pc' = "done" /\ ~IsError(Val(response')))
      ]_vars

\* a /scrape of three pages has succeeded with one listing, the card of the
\* primary selector of a page that also has elements the alternatives
\* match; its last page had only an element that no selector matches
C16_Witness ==
    /\ Succeeded("scrape")
    /\ req.pages = 3
    /\ Val(fetched).doc = <<CardH>>
    /\ shown = Range(CardIds(<<CardB>>))
    /\ dups = {}
    /\ Val(response).count = 1

\* the English keys of the furniture translation table
FurnitureKeys ==
    {furniture_translations[k][1] : k \in 1..Len(furniture_translations)}

\* the first Dutch term the furniture table lists for a key
FirstDutchTerm(key) ==
    furniture_translations[CHOOSE k \in 1..Len(furniture_translations) :
                               furniture_translations[k][1] = key][2][1]

\* C17: a /smart-search query that is exactly a key of the furniture
\* translation table is parsed to the first Dutch term listed for that key,
\* as the search terms and as the item type ('dining table' to 'eettafel').
C17_KeyGivesItsDutchTerm ==
    (handler = "smart" /\ req.query \in FurnitureKeys) =>
        /\ Val(parsed_query).search_terms = FirstDutchTerm(req.query)
        /\ Val(parsed_query).item_type = Some(FirstDutchTerm(req.query))

\* the items of all the categories of a collection
RECURSIVE AllItems(_)
AllItems(coll) ==
    IF coll = <<>> THEN <<>> ELSE Head(coll)[2] \o AllItems(Tail(coll))

\* C18: in a /style-collection response no listing id is on two items of
\* the collection, of the same category or of different categories.
C18_StyleIdsUniqueInCollection ==
    Succeeded("style") =>
        LET all == AllItems(Val(response).collection)
        IN \A i, j \in 1..Len(all) : i # j => all[i].id # all[j].id

====
